---- MODULE Spec2Model ----
(***************************************************************************)
(* Presence-API: the company and employee registries                       *)
(* (company-service/api/service.py, employee-service/api/service.py).      *)
(*                                                                         *)
(* Each service is a set of synchronous request handlers over one          *)
(* document collection.  A handler is modelled by an operator that maps    *)
(* the collection and the request to the collection afterwards and the     *)
(* (status, message, data) response; an action applies one handler to one  *)
(* request.  A store call of a request may fail (the handler's except      *)
(* clause answers), and two registrations may be in service at once, each  *)
(* giving way to the other at its store calls.                             *)
(*                                                                         *)
(* Encoding of Python/JSON values:                                         *)
(*   - a dict is a function whose domain is its set of keys;               *)
(*   - a document key and the text of an id is a sequence of characters,   *)
(*     so that startswith, slicing, int() and the f-string formats are     *)
(*     computed rather than assumed;                                       *)
(*   - the value of an "id" field is [type, val]: a JSON string or a JSON  *)
(*     number (a request body may carry either);                           *)
(*   - a password value is [scheme, salt, key]: a plain string, None, or   *)
(*     a bcrypt digest of key under salt;                                  *)
(*   - every other field holds an opaque string, None being the token      *)
(*     None;                                                               *)
(*   - a message is the sequence of the pieces it is formatted from.       *)
(***************************************************************************)
EXTENDS Integers, Sequences, FiniteSets, TLC

VARIABLES
    collection,   \* the collection the service owns: COMPANY_COLLECTION or EMPLOYEE_COLLECTION
    docs,         \* the documents of that collection, by document key
    call,         \* the request being served: [op, id, data, fault], NoCall between requests
    response,     \* the response_wrapper(status, message, data) its handler returned
    issued,       \* history: the ids handed out by successful registrations
    before,       \* history: the documents as the request being served found them
    procs         \* the registrations in service at once: [pc, data, id, resp, last] each

vars == <<collection, docs, call, response, issued, before, procs>>

----------------------------------------------------------------------------
(* Bounds of the model. *)

\* generated ids are explored up to this many steps above the seed number
MaxNew == 2

----------------------------------------------------------------------------
(* Python strings, int() and the id formats. *)

None == "<None>"

COMPANY_COLLECTION == "companies"
EMPLOYEE_COLLECTION == "employees"

Digit == <<"0", "1", "2", "3", "4", "5", "6", "7", "8", "9">>
DigitChars == {Digit[i] : i \in 1..10}
DigitVal(c) == CHOOSE v \in 0..9 : Digit[v + 1] = c

\* s.startswith(p)
startswith(s, p) == Len(s) >= Len(p) /\ SubSeq(s, 1, Len(p)) = p

\* s[n:]
slice_from(s, n) == SubSeq(s, n + 1, Len(s))

\* s.strip(), as int() applies it
RECURSIVE lstrip(_)
lstrip(s) == IF s # <<>> /\ Head(s) = " " THEN lstrip(Tail(s)) ELSE s
RECURSIVE rstrip(_)
rstrip(s) == IF s # <<>> /\ s[Len(s)] = " " THEN rstrip(SubSeq(s, 1, Len(s) - 1)) ELSE s
strip(s) == rstrip(lstrip(s))

\* the text of int(s) without surrounding blanks and sign
int_body(s) ==
    LET t == strip(s)
    IN IF t # <<>> /\ Head(t) \in {"+", "-"} THEN Tail(t) ELSE t

int_negative(s) == LET t == strip(s) IN t # <<>> /\ Head(t) = "-"

\* int(s) does not raise ValueError: an optional sign, then digits, single
\* underscores allowed between digits
int_parses(s) ==
    LET b == int_body(s)
    IN /\ b # <<>>
       /\ \A i \in 1..Len(b) : b[i] \in DigitChars \cup {"_"}
       /\ b[1] # "_" /\ b[Len(b)] # "_"
       /\ \A i \in 1..(Len(b) - 1) : ~(b[i] = "_" /\ b[i + 1] = "_")

RECURSIVE digits_value(_)
digits_value(b) ==
    IF b = <<>> THEN 0
    ELSE IF b[Len(b)] = "_" THEN digits_value(SubSeq(b, 1, Len(b) - 1))
    ELSE 10 * digits_value(SubSeq(b, 1, Len(b) - 1)) + DigitVal(b[Len(b)])

\* int(s), where it parses
int_value(s) ==
    IF int_negative(s) THEN 0 - digits_value(int_body(s)) ELSE digits_value(int_body(s))

RECURSIVE nat_digits(_)
nat_digits(n) ==
    IF n < 10 THEN <<Digit[n + 1]>> ELSE nat_digits(n \div 10) \o <<Digit[(n % 10) + 1]>>

\* f"{n}"
format_d(n) == IF n < 0 THEN <<"-">> \o nat_digits(0 - n) ELSE nat_digits(n)

RECURSIVE zeros(_)
zeros(k) == IF k <= 0 THEN <<>> ELSE <<"0">> \o zeros(k - 1)

\* f"{n:03d}": the sign counts in the width, the zeros follow it
format_03d(n) ==
    LET d == nat_digits(IF n < 0 THEN 0 - n ELSE n)
        sign == IF n < 0 THEN <<"-">> ELSE <<>>
    IN sign \o zeros(3 - Len(sign) - Len(d)) \o d

max(S) == CHOOSE m \in S : \A n \in S : n <= m

PEPRE == <<"P", "E", "P", "R", "E", "-">>
EMP == <<"E", "M", "P">>

\* a JSON string / a JSON number as the value of an "id" field
JStr(s) == [type |-> "str", val |-> s]
JNum(n) == [type |-> "int", val |-> format_d(n)]

----------------------------------------------------------------------------
(* The document store (FirestoreDB) and the response envelope. *)

EmptyDict == <<>>

\* the data of a response that carries none
Null == [null |-> TRUE]

\* old.update(new): a shallow merge, the new value winning per key
merge(old, new) == new @@ old

\* the dict without one key (del d[k])
without(d, k) == [f \in (DOMAIN d) \ {k} |-> d[f]]

\* the dict restricted to the keys it has among ks
only(d, ks) == [f \in (DOMAIN d) \cap ks |-> d[f]]

\* db.get_all_documents(collection): the documents, in no particular order
get_all_documents(store) == {store[k] : k \in DOMAIN store}

\* db.get_documents_by_field(collection, field, value): query by field equality
get_documents_by_field(store, field, value) ==
    {d \in get_all_documents(store) : field \in DOMAIN d /\ d[field] = value}

\* db.get_document(collection, id) finds a document (it returns None otherwise)
has_document(store, id) == id \in DOMAIN store

\* db.add_document(collection, id, data): put by id, replacing what is there
add_document(store, id, data) ==
    [k \in (DOMAIN store) \cup {id} |-> IF k = id THEN data ELSE store[k]]

\* db.update_document(collection, id, data): merge the fields into the document
update_document(store, id, data) ==
    [k \in DOMAIN store |-> IF k = id THEN merge(store[k], data) ELSE store[k]]

\* db.delete_document(collection, id)
delete_document(store, id) == [k \in (DOMAIN store) \ {id} |-> store[k]]

response_wrapper(status, message, data) ==
    [status |-> status, message |-> message, data |-> data]

\* what a handler yields: the collection afterwards and the response
result(store, resp) == [store |-> store, resp |-> resp]

\* no response: none is owed between requests, none is returned yet while a
\* handler goes on
NoResponse == response_wrapper(0, <<>>, Null)

\* sep.join(names), piece by piece
RECURSIVE join(_, _)
join(sep, names) ==
    IF names = <<>> THEN <<>>
    ELSE IF Len(names) = 1 THEN names
    ELSE <<Head(names), sep>> \o join(sep, Tail(names))

\* missing_of with the test for None and "" left out
missing_of_absent_only(required_fields, data) ==
    SelectSeq(required_fields, LAMBDA f : f \notin DOMAIN data)

\* [field for field in required_fields if field not in data or data[field] in [None, ""]]
missing_of(required_fields, data) ==
    SelectSeq(required_fields, LAMBDA f : f \notin DOMAIN data \/ data[f] \in {None, ""})

\* email_taken with the lookup's answer ignored
email_taken_never(store, email) == FALSE

\* existing = db.get_documents_by_field(collection, "email", email); if existing: ...
email_taken(store, email) == get_documents_by_field(store, "email", email) # {}

----------------------------------------------------------------------------
(* Store faults and the handlers' except clauses. *)

\* no store call of the request fails
NoFault == "none"

\* the store call that raises while a request is served; the second
\* get_document of an update is the one that reads the document back
Faults ==
    {"get_document", "get_documents_by_field", "get_all_documents", "add_document",
     "update_document", "delete_document", "get_document again"}

\* str(e) of the exception the store raises
STORE_ERROR == "Unavailable"

\* an except clause that hands the exception's text back as the data
caught_with_data(store, prefix) ==
    result(store, response_wrapper(500, <<prefix, STORE_ERROR>>, [error |-> STORE_ERROR]))

\* except Exception as e: return response_wrapper(500, f"<prefix>{str(e)}", None),
\* with the collection as the calls before the failing one left it
caught(store, prefix) ==
    result(store, response_wrapper(500, <<prefix, STORE_ERROR>>, Null))

----------------------------------------------------------------------------
(* Text: str(), str.lower() and the substring test. *)

\* str.lower() over the designations and sizes the model uses
lower(s) == IF s \in {"Dev", "DEV"} THEN "dev" ELSE s

\* the characters of the names the model uses
text_of(s) ==
    IF s = "Acme" THEN <<"A", "c", "m", "e">> ELSE <<s>>

lower_char(c) ==
    CASE c = "A" -> "a" [] c = "C" -> "c" [] c = "E" -> "e" [] c = "M" -> "m"
      [] c = "P" -> "p" [] c = "R" -> "r" [] OTHER -> c

\* s.lower(), character by character
lower_text(s) == [i \in 1..Len(s) |-> lower_char(s[i])]

\* q in s
contains(s, q) == \E i \in 1..(Len(s) - Len(q) + 1) : SubSeq(s, i, i + Len(q) - 1) = q

----------------------------------------------------------------------------
(* Sequential ids. *)

SEED_COMPANY_ID == PEPRE \o <<"1", "0", "0", "0">>
SEED_EMPLOYEE_ID == EMP \o <<"0", "0", "1">>

\* id_numbers with a suffix that raises ValueError counted as 0, not skipped
id_numbers_counting_malformed(documents, prefix) ==
    {IF int_parses(slice_from(d.id.val, Len(prefix)))
     THEN int_value(slice_from(d.id.val, Len(prefix))) ELSE 0 :
        d \in {x \in documents : "id" \in DOMAIN x /\ startswith(x.id.val, prefix)}}

\* the numbers int() reads after the prefix, over the documents whose id
\* starts with it; a suffix that raises ValueError is skipped
id_numbers(documents, prefix) ==
    {int_value(slice_from(d.id.val, Len(prefix))) :
        d \in {x \in documents : /\ "id" \in DOMAIN x
                                 /\ startswith(x.id.val, prefix)
                                 /\ int_parses(slice_from(x.id.val, Len(prefix)))}}

\* an id that is no string has no startswith: the AttributeError is caught by
\* the generator's except clause
raises_on_id(documents) ==
    \E d \in documents : "id" \in DOMAIN d /\ d.id.type # "str"

\* get_next_company_id without its except clause's fallback: the scan's
\* answer whatever the read did
get_next_company_id_without_fallback(store, fault) ==
    LET company_numbers == id_numbers(get_all_documents(store), PEPRE)
    IN IF company_numbers = {} THEN SEED_COMPANY_ID
       ELSE PEPRE \o format_d(max(company_numbers) + 1)

get_next_company_id(store, fault) ==
    LET companies == get_all_documents(store)
        company_numbers == id_numbers(companies, PEPRE)
    IN IF fault = "get_all_documents" THEN SEED_COMPANY_ID
       ELSE IF companies = {} THEN SEED_COMPANY_ID
       ELSE IF raises_on_id(companies) THEN SEED_COMPANY_ID
       ELSE IF company_numbers = {} THEN SEED_COMPANY_ID
       ELSE PEPRE \o format_d(max(company_numbers) + 1)

get_next_employee_id(store, fault) ==
    LET employees == get_all_documents(store)
        emp_numbers == id_numbers(employees, EMP)
    IN IF fault = "get_all_documents" THEN SEED_EMPLOYEE_ID
       ELSE IF employees = {} THEN SEED_EMPLOYEE_ID
       ELSE IF raises_on_id(employees) THEN SEED_EMPLOYEE_ID
       ELSE IF emp_numbers = {} THEN SEED_EMPLOYEE_ID
       ELSE EMP \o format_03d(max(emp_numbers) + 1)

----------------------------------------------------------------------------
(* company-service/api/service.py *)

COMPANY_REQUIRED == <<"name", "size", "email">>
COMPANY_OPTIONAL == {"admin_name", "address", "phone_number", "industry", "website"}

\* the record add_company assembles
company_data(company_id, data, now) ==
    merge([id |-> JStr(company_id), name |-> data.name, size |-> data.size,
           email |-> data.email, created_at |-> now, updated_at |-> now],
          only(data, COMPANY_OPTIONAL))

\* add_company down to its existence query: the response it returns there,
\* NoResponse when it goes on to generate an id
company_rejection(store, data, fault) ==
    LET missing_fields == missing_of(COMPANY_REQUIRED, data)
    IN IF data = EmptyDict
       THEN response_wrapper(400, <<"No data provided">>, Null)
       ELSE IF missing_fields # <<>>
       THEN response_wrapper(400,
                <<"Missing required fields: ">> \o join(", ", missing_fields), Null)
       ELSE IF fault = "get_documents_by_field"
       THEN caught(store, "Error creating company: ").resp
       ELSE IF email_taken(store, data.email)
       THEN response_wrapper(400, <<"Company with this email already exists">>, Null)
       ELSE NoResponse

\* company_written with a write that leaves a document already stored under
\* the id alone
company_written_if_absent(store, company_id, data, now) ==
    result(IF has_document(store, company_id) THEN store
           ELSE add_document(store, company_id, company_data(company_id, data, now)),
           response_wrapper(201, <<"Company registered successfully">>,
                            company_data(company_id, data, now)))

\* company_written with the existence query made again at the write
company_written_if_free(store, company_id, data, now) ==
    IF email_taken(store, data.email)
    THEN result(store, response_wrapper(400,
             <<"Company with this email already exists">>, Null))
    ELSE result(add_document(store, company_id, company_data(company_id, data, now)),
                response_wrapper(201, <<"Company registered successfully">>,
                                 company_data(company_id, data, now)))

\* add_company from its write on: the record goes to the store under the id
company_written(store, company_id, data, now) ==
    result(add_document(store, company_id, company_data(company_id, data, now)),
           response_wrapper(201, <<"Company registered successfully">>,
                            company_data(company_id, data, now)))

add_company(store, data, now, fault) ==
    LET rejected == company_rejection(store, data, fault)
        company_id == get_next_company_id(store, fault)
    IN IF rejected # NoResponse
       THEN result(store, rejected)
       ELSE IF fault = "add_document"
       THEN caught(store, "Error creating company: ")
       ELSE company_written(store, company_id, data, now)

get_company(store, company_id, fault) ==
    IF company_id = <<>>
    THEN result(store, response_wrapper(400, <<"Company ID is required">>, Null))
    ELSE IF fault = "get_document"
    THEN caught(store, "Error fetching company: ")
    ELSE IF ~has_document(store, company_id)
    THEN result(store, response_wrapper(404, <<"Company not found">>, Null))
    ELSE result(store, response_wrapper(200, <<"Company details fetched">>, store[company_id]))

get_all_companies(store, fault) ==
    IF fault = "get_all_documents"
    THEN caught(store, "Error fetching all companies: ")
    ELSE result(store, response_wrapper(200, <<"All companies fetched">>,
                                        [items |-> get_all_documents(store)]))

update_company(store, company_id, data, now, fault) ==
    LET existing_company == store[company_id]
        stamped == merge(data, [updated_at |-> now])
        updated == update_document(store, company_id, stamped)
    IN IF company_id = <<>>
       THEN result(store, response_wrapper(400, <<"Company ID is required">>, Null))
       ELSE IF fault = "get_document"
       THEN caught(store, "Error updating company: ")
       ELSE IF ~has_document(store, company_id)
       THEN result(store, response_wrapper(404, <<"Company not found">>, Null))
       ELSE IF /\ "email" \in DOMAIN data
               /\ data.email # existing_company.email
               /\ fault = "get_documents_by_field"
       THEN caught(store, "Error updating company: ")
       ELSE IF /\ "email" \in DOMAIN data
               /\ data.email # existing_company.email
               /\ \E comp \in get_documents_by_field(store, "email", data.email) :
                      comp.id # JStr(company_id)
       THEN result(store, response_wrapper(400,
                <<"Email already in use by another company">>, Null))
       ELSE IF fault = "update_document"
       THEN caught(store, "Error updating company: ")
       ELSE IF fault = "get_document again"
       THEN caught(updated, "Error updating company: ")
       ELSE result(updated, response_wrapper(200, <<"Company updated successfully">>,
                                             updated[company_id]))

\* delete_company answering 200 without the call of db.delete_document
delete_company_keeping(store, company_id, fault) ==
    IF company_id = <<>>
    THEN result(store, response_wrapper(400, <<"Company ID is required">>, Null))
    ELSE IF ~has_document(store, company_id)
    THEN result(store, response_wrapper(404, <<"Company not found">>, Null))
    ELSE result(store, response_wrapper(200, <<"Company deleted successfully">>,
                                        [id |-> JStr(company_id)]))

delete_company(store, company_id, fault) ==
    IF company_id = <<>>
    THEN result(store, response_wrapper(400, <<"Company ID is required">>, Null))
    ELSE IF fault = "get_document"
    THEN caught(store, "Error deleting company: ")
    ELSE IF ~has_document(store, company_id)
    THEN result(store, response_wrapper(404, <<"Company not found">>, Null))
    ELSE IF fault = "delete_document"
    THEN caught(store, "Error deleting company: ")
    ELSE result(delete_document(store, company_id),
                response_wrapper(200, <<"Company deleted successfully">>,
                                 [id |-> JStr(company_id)]))

\* str(company[field]).lower(): the text of an id, of a name
field_text(company, field) ==
    lower_text(IF field = "id" THEN company.id.val ELSE text_of(company[field]))

search_companies(store, query, field, fault) ==
    LET companies == get_all_documents(store)
        filtered_companies ==
            {company \in companies :
                field \in DOMAIN company /\ contains(field_text(company, field), lower_text(query))}
    IN IF query = <<>>
       THEN result(store, response_wrapper(400, <<"Search query is required">>, Null))
       ELSE IF fault = "get_all_documents"
       THEN caught(store, "Error searching companies: ")
       ELSE result(store, response_wrapper(200,
                <<"Found ">> \o nat_digits(Cardinality(filtered_companies))
                    \o <<" matching companies">>,
                [items |-> filtered_companies]))

get_companies_by_size(store, size, fault) ==
    LET companies == get_all_documents(store)
        filtered_companies ==
            {comp \in companies :
                lower(IF "size" \in DOMAIN comp THEN comp.size ELSE "") = lower(size)}
    IN IF size = ""
       THEN result(store, response_wrapper(400, <<"Company size is required">>, Null))
       ELSE IF fault = "get_all_documents"
       THEN caught(store, "Error fetching companies by size: ")
       ELSE result(store, response_wrapper(200,
                <<"Found ">> \o nat_digits(Cardinality(filtered_companies))
                    \o <<" companies of size '", size, "'">>,
                [items |-> filtered_companies]))

verify_company_exists(store, company_id, fault) ==
    IF fault = "get_document"
    THEN caught(store, "Error verifying company: ")
    ELSE result(store, response_wrapper(200,
            IF has_document(store, company_id) THEN <<"Company exists">>
                                               ELSE <<"Company does not exist">>,
            [exists |-> has_document(store, company_id)]))

----------------------------------------------------------------------------
(* employee-service/api/service.py *)

\* a plain string, and None, as a password value
Plain(text) == [scheme |-> "", salt |-> 0, key |-> text]
NonePassword == [scheme |-> None, salt |-> 0, key |-> ""]

\* the fixed initial password
ADMIN_PASSWORD == Plain("admin")

\* bcrypt.hashpw(password.encode("utf-8"), salt).decode("utf-8"): a "$2b$..." digest
hashpw(password, salt) == [scheme |-> "$2b$", salt |-> salt, key |-> password.key]

\* bcrypt.checkpw(password, hashed): hash under the digest's salt and compare
checkpw(password, hashed) == hashpw(password, hashed.salt) = hashed

\* stored_password.startswith('$2')
is_bcrypt_format(stored) == stored.scheme = "$2b$"

\* truthy with the empty string taken for a password
truthy_unless_none(password) == password # NonePassword

\* the truth value of a password: None and "" are falsy
truthy(password) == password # NonePassword /\ password # Plain("")

EMPLOYEE_REQUIRED ==
    <<"name", "date_of_birth", "email", "address", "phone_number", "designation",
      "employee_shift_hours">>
EMPLOYEE_OPTIONAL == {"age", "blood_type", "ctc"}

\* the record add_employee assembles
employee_data(employee_id, data, now, salt) ==
    merge([id |-> JStr(employee_id), name |-> data.name,
           date_of_birth |-> data.date_of_birth, email |-> data.email,
           address |-> data.address, phone_number |-> data.phone_number,
           designation |-> data.designation, password |-> hashpw(ADMIN_PASSWORD, salt),
           employee_shift_hours |-> data.employee_shift_hours,
           created_at |-> now, last_login |-> None],
          only(data, EMPLOYEE_OPTIONAL))

\* add_employee down to its existence query: the response it returns there,
\* NoResponse when it goes on to generate an id
employee_rejection(store, data, fault) ==
    LET missing_fields == missing_of(EMPLOYEE_REQUIRED, data)
    IN IF data = EmptyDict
       THEN response_wrapper(400, <<"No data provided">>, Null)
       ELSE IF missing_fields # <<>>
       THEN response_wrapper(400,
                <<"Missing required fields: ">> \o join(", ", missing_fields), Null)
       ELSE IF fault = "get_documents_by_field"
       THEN caught(store, "Error creating employee: ").resp
       ELSE IF email_taken(store, data.email)
       THEN response_wrapper(400, <<"Employee with this email already exists">>, Null)
       ELSE NoResponse

\* add_employee from its write on: the record goes to the store under the
\* id, the response carries it with the plain password in place of the hash
employee_written(store, employee_id, data, now, salt) ==
    LET response_data == merge(without(employee_data(employee_id, data, now, salt), "password"),
                               [password |-> ADMIN_PASSWORD])
    IN result(add_document(store, employee_id, employee_data(employee_id, data, now, salt)),
              response_wrapper(201,
                  <<"Employee registered successfully with standard password 'admin'">>,
                  response_data))

add_employee(store, data, now, salt, fault) ==
    LET rejected == employee_rejection(store, data, fault)
        employee_id == get_next_employee_id(store, fault)
    IN IF rejected # NoResponse
       THEN result(store, rejected)
       ELSE IF fault = "add_document"
       THEN caught(store, "Error creating employee: ")
       ELSE employee_written(store, employee_id, data, now, salt)

update_employee(store, employee_id, data, now, salt, fault) ==
    LET existing_employee == store[employee_id]
        reset == "update_password" \in DOMAIN data /\ data.update_password = "True"
        \* the password branch: the fields to write and the response's own fields
        fields ==
            IF reset
            THEN without(merge(data, [password |-> hashpw(ADMIN_PASSWORD, salt)]),
                         "update_password")
            ELSE IF "password" \in DOMAIN data
            THEN IF truthy(data.password)
                 THEN merge(data, [password |-> hashpw(data.password, salt)])
                 ELSE without(data, "password")
            ELSE data
        response_data == IF reset THEN [password |-> ADMIN_PASSWORD] ELSE EmptyDict
        stamped == merge(fields, [updated_at |-> now])
        updated == update_document(store, employee_id, stamped)
        updated_employee == updated[employee_id]
    IN IF employee_id = <<>>
       THEN result(store, response_wrapper(400, <<"Employee ID is required">>, Null))
       ELSE IF fault = "get_document"
       THEN caught(store, "Error updating employee: ")
       ELSE IF ~has_document(store, employee_id)
       THEN result(store, response_wrapper(404, <<"Employee not found">>, Null))
       ELSE IF /\ "email" \in DOMAIN data
               /\ data.email # existing_employee.email
               /\ fault = "get_documents_by_field"
       THEN caught(store, "Error updating employee: ")
       ELSE IF /\ "email" \in DOMAIN data
               /\ data.email # existing_employee.email
               /\ \E emp \in get_documents_by_field(store, "email", data.email) :
                      emp.id # JStr(employee_id)
       THEN result(store, response_wrapper(400,
                <<"Email already in use by another employee">>, Null))
       ELSE IF fault = "update_document"
       THEN caught(store, "Error updating employee: ")
       ELSE IF fault = "get_document again"
       THEN caught(updated, "Error updating employee: ")
       ELSE result(updated, response_wrapper(200, <<"Employee updated successfully">>,
                                             merge(response_data, updated_employee)))

\* login_employee with last_login written as soon as the employee is found,
\* before the password is verified
login_employee_stamping_first(store, data, now, first, fault) ==
    LET stamped == update_document(store, first.id.val, [last_login |-> now])
    IN IF data = EmptyDict \/ ~({"email", "password"} \subseteq DOMAIN data)
       THEN result(store, response_wrapper(400, <<"Email and password are required">>, Null))
       ELSE IF fault = "get_documents_by_field"
       THEN caught(store, "Error during login: ")
       ELSE IF get_documents_by_field(store, "email", data.email) = {}
       THEN result(store, response_wrapper(401, <<"Invalid email or password">>, Null))
       ELSE IF fault = "update_document"
       THEN caught(store, "Error during login: ")
       ELSE IF data.password = NonePassword \/ ~checkpw(data.password, first.password)
       THEN result(stamped, response_wrapper(401, <<"Invalid email or password">>, Null))
       ELSE result(stamped, response_wrapper(200, <<"Login successful">>, first))

\* employees[0] is `first`, one of the documents the query returned
login_employee(store, data, now, first, fault) ==
    LET employees == get_documents_by_field(store, "email", data.email)
        employee == first
        stored_password ==
            IF "password" \in DOMAIN employee THEN employee.password ELSE NonePassword
        writable == employee.id.type = "str" /\ has_document(store, employee.id.val)
    IN IF data = EmptyDict \/ ~({"email", "password"} \subseteq DOMAIN data)
       THEN result(store, response_wrapper(400, <<"Email and password are required">>, Null))
       ELSE IF fault = "get_documents_by_field"
       THEN caught(store, "Error during login: ")
       ELSE IF employees = {}
       THEN result(store, response_wrapper(401, <<"Invalid email or password">>, Null))
       ELSE IF ~truthy(stored_password)
       THEN result(store, response_wrapper(401, <<"Invalid password format">>, Null))
       ELSE IF ~is_bcrypt_format(stored_password)
       THEN result(store, response_wrapper(401, <<"Invalid stored password format">>, Null))
       ELSE IF data.password = NonePassword
       THEN result(store, response_wrapper(500,
                <<"Password verification system error: ", "AttributeError">>, Null))
       ELSE IF ~checkpw(data.password, stored_password)
       THEN result(store, response_wrapper(401, <<"Invalid email or password">>, Null))
       ELSE IF fault = "update_document"
       THEN caught(store, "Error during login: ")
       ELSE IF ~writable
       THEN result(store, response_wrapper(500, <<"Error during login: ", "NotFound">>, Null))
       ELSE result(update_document(store, employee.id.val, [last_login |-> now]),
                   response_wrapper(200, <<"Login successful">>, employee))

get_employee(store, employee_id, fault) ==
    IF employee_id = <<>>
    THEN result(store, response_wrapper(400, <<"Employee ID is required">>, Null))
    ELSE IF fault = "get_document"
    THEN caught(store, "Error fetching employee: ")
    ELSE IF ~has_document(store, employee_id)
    THEN result(store, response_wrapper(404, <<"Employee not found">>, Null))
    ELSE result(store, response_wrapper(200, <<"Employee details fetched">>, store[employee_id]))

get_all_employees(store, fault) ==
    IF fault = "get_all_documents"
    THEN caught(store, "Error fetching all employees: ")
    ELSE result(store, response_wrapper(200, <<"All employees fetched">>,
                                        [items |-> get_all_documents(store)]))

verify_employee_exists(store, employee_id, fault) ==
    IF fault = "get_document"
    THEN caught(store, "Error verifying employee: ")
    ELSE result(store, response_wrapper(200,
            IF has_document(store, employee_id) THEN <<"Employee exists">>
                                                ELSE <<"Employee does not exist">>,
            [exists |-> has_document(store, employee_id)]))

get_employees_by_designation(store, designation, fault) ==
    LET employees == get_all_documents(store)
        filtered_employees ==
            {emp \in employees :
                lower(IF "designation" \in DOMAIN emp THEN emp.designation ELSE "")
                    = lower(designation)}
    IN IF designation = ""
       THEN result(store, response_wrapper(400, <<"Designation is required">>, Null))
       ELSE IF fault = "get_all_documents"
       THEN caught(store, "Error fetching employees by designation: ")
       ELSE result(store, response_wrapper(200,
                <<"Found ">> \o nat_digits(Cardinality(filtered_employees))
                    \o <<" employees with designation '", designation, "'">>,
                [items |-> filtered_employees]))

delete_employee(store, employee_id, fault) ==
    IF employee_id = <<>>
    THEN result(store, response_wrapper(400, <<"Employee ID is required">>, Null))
    ELSE IF fault = "get_document"
    THEN caught(store, "Error deleting employee: ")
    ELSE IF ~has_document(store, employee_id)
    THEN result(store, response_wrapper(404, <<"Employee not found">>, Null))
    ELSE IF fault = "delete_document"
    THEN caught(store, "Error deleting employee: ")
    ELSE result(delete_document(store, employee_id),
                response_wrapper(200, <<"Employee deleted successfully">>,
                                 [id |-> JStr(employee_id)]))

----------------------------------------------------------------------------
(* The requests the model sends. *)

\* datetime.utcnow().isoformat(): the handlers never read a timestamp back
Timestamps == {"2025-01-01T00:00:00"}

\* bcrypt.gensalt()
Salts == {1, 2}

Emails == {"a@x.com", "b@x.com"}

SEED_COMPANY_NUMBER == 1000
SEED_EMPLOYEE_NUMBER == 1

\* the document keys a request may name: the ids the generators produce
\* within the bound, and the empty id
CompanyKeys ==
    {PEPRE \o format_d(n) : n \in SEED_COMPANY_NUMBER..(SEED_COMPANY_NUMBER + MaxNew)} \cup {<<>>}
EmployeeKeys ==
    {EMP \o format_03d(n) : n \in SEED_EMPLOYEE_NUMBER..(SEED_EMPLOYEE_NUMBER + MaxNew)} \cup {<<>>}

Company(email) == [name |-> "Acme", size |-> "50", email |-> email]

CompanyRegistrations ==
    {Company(e) : e \in Emails}
    \cup {merge(Company("b@x.com"), [website |-> "acme.example"])}
    \cup {EmptyDict,
          [name |-> "Acme", size |-> "50"],
          [name |-> "", size |-> "50", email |-> "a@x.com"],
          [name |-> None, size |-> "", email |-> "a@x.com"],
          [email |-> "b@x.com", website |-> "acme.example"]}

\* partial updates: the email, and the id field as a string (another document's key, a malformed suffix, a foreign prefix)
\* or as a number
CompanyUpdates ==
    {[email |-> e] : e \in Emails}
    \cup {[id |-> v] : v \in {JStr(SEED_COMPANY_ID), JStr(PEPRE \o <<"x">>),
                              JStr(<<"X", "1">>), JNum(7)}}

Employee(email) ==
    [name |-> "Ann", date_of_birth |-> "1990-01-01", email |-> email,
     address |-> "1 Main St", phone_number |-> "555", designation |-> "Dev",
     employee_shift_hours |-> "8"]

EmployeeRegistrations ==
    {Employee(e) : e \in Emails}
    \cup {merge(Employee("b@x.com"), [age |-> "30"])}
    \cup {EmptyDict,
          without(Employee("a@x.com"), "email"),
          merge(Employee("a@x.com"), [name |-> ""]),
          merge(Employee("a@x.com"), [name |-> None, designation |-> ""]),
          [email |-> "b@x.com", age |-> "30"]}

EmployeeUpdates ==
    {[email |-> e] : e \in Emails}
    \cup {[id |-> v] : v \in {JStr(SEED_EMPLOYEE_ID), JStr(EMP \o <<"x">>),
                              JStr(<<"X", "1">>), JNum(7)}}

\* updates of the credentials: the reset flag set and not set, with and
\* without a password beside it, and a password alone
CredentialUpdates ==
    {[update_password |-> "True"],
     [update_password |-> "True", password |-> Plain("pw")],
     [update_password |-> "False"],
     [password |-> Plain("pw")],
     [password |-> Plain("")],
     [password |-> NonePassword]}

\* updates without the reset flag: a password that is a string, empty or
\* None, alone and beside another field, and the last_login field
FieldUpdates ==
    {[password |-> Plain("pw")],
     [password |-> Plain("")],
     [password |-> NonePassword],
     [password |-> Plain(""), designation |-> "QA"],
     [password |-> NonePassword, update_password |-> "False"],
     [password |-> Plain("pw"), designation |-> "QA"],
     [last_login |-> "2025-01-01T00:00:00"]}

Logins ==
    {[email |-> e, password |-> p] : e \in Emails, p \in {ADMIN_PASSWORD, Plain("pw")}}
    \cup {EmptyDict, [email |-> "a@x.com"], [email |-> "a@x.com", password |-> NonePassword]}

Designations == {"dev", "QA", ""}

\* a store call of the request fails, or none does
AnyFault == Faults \cup {NoFault}

FaultCompanyRegistrations == {Company(e) : e \in Emails} \cup {EmptyDict}
FaultEmployeeRegistrations == {Employee(e) : e \in Emails} \cup {EmptyDict}
EmailUpdates == {[email |-> e] : e \in Emails}

\* search: a text the name holds, one the ids hold, one nothing holds, none
Queries == {<<"a", "C">>, <<"p", "e", "p", "r", "e", "-", "1">>, <<"z">>, <<>>}
SearchFields == {"name", "id", "industry"}

Sizes == {"50", "200", ""}

\* registrations in service at once: the same email or different ones
RaceRegistrations ==
    IF collection = COMPANY_COLLECTION THEN {Company(e) : e \in Emails}
                                       ELSE {Employee(e) : e \in Emails}

----------------------------------------------------------------------------
(* The state machine: one action per handler. *)

NoCall == [op |-> "none", id |-> <<>>, data |-> EmptyDict, fault |-> NoFault]

\* the two requests that may be in service at once
Procs == {1, 2}

Idle == [pc |-> "idle", data |-> EmptyDict, id |-> <<>>, resp |-> NoResponse, last |-> FALSE]

Init ==
    /\ collection \in {COMPANY_COLLECTION, EMPLOYEE_COLLECTION}
    /\ docs = EmptyDict
    /\ call = NoCall
    /\ response = NoResponse
    /\ issued = {}
    /\ before = EmptyDict
    /\ procs = [p \in Procs |-> Idle]

\* a registration that succeeds is explored within the bounds
WithinBounds(r, prefix, seed) ==
    r.resp.status = 201 =>
        int_value(slice_from(r.resp.data.id.val, Len(prefix))) <= seed + MaxNew

\* a request is served at once, one at a time: its handler's outcome becomes
\* the state
Handled(op, id, data, fault, r) ==
    /\ call = NoCall
    /\ docs' = r.store
    /\ response' = r.resp
    /\ call' = [op |-> op, id |-> id, data |-> data, fault |-> fault]
    /\ issued' = IF r.resp.status = 201 THEN issued \cup {r.resp.data.id.val} ELSE issued
    /\ before' = docs
    /\ UNCHANGED <<collection, procs>>

AddCompany(data, now, fault) ==
    /\ collection = COMPANY_COLLECTION
    /\ LET r == add_company(docs, data, now, fault)
       IN /\ WithinBounds(r, PEPRE, SEED_COMPANY_NUMBER)
          /\ Handled("add_company", <<>>, data, fault, r)

GetCompany(id, fault) ==
    /\ collection = COMPANY_COLLECTION
    /\ Handled("get_company", id, EmptyDict, fault, get_company(docs, id, fault))

GetAllCompanies(fault) ==
    /\ collection = COMPANY_COLLECTION
    /\ Handled("get_all_companies", <<>>, EmptyDict, fault, get_all_companies(docs, fault))

UpdateCompany(id, data, now, fault) ==
    /\ collection = COMPANY_COLLECTION
    /\ Handled("update_company", id, data, fault, update_company(docs, id, data, now, fault))

DeleteCompany(id, fault) ==
    /\ collection = COMPANY_COLLECTION
    /\ Handled("delete_company", id, EmptyDict, fault, delete_company(docs, id, fault))

SearchCompanies(query, field, fault) ==
    /\ collection = COMPANY_COLLECTION
    /\ Handled("search_companies", <<>>, [query |-> query, field |-> field], fault,
               search_companies(docs, query, field, fault))

GetCompaniesBySize(size, fault) ==
    /\ collection = COMPANY_COLLECTION
    /\ Handled("get_companies_by_size", <<>>, [size |-> size], fault,
               get_companies_by_size(docs, size, fault))

\* the route answers an empty id itself and calls the handler with the others
VerifyCompanyExists(id, fault) ==
    /\ collection = COMPANY_COLLECTION
    /\ id # <<>>
    /\ Handled("verify_company_exists", id, EmptyDict, fault,
               verify_company_exists(docs, id, fault))

AddEmployee(data, now, salt, fault) ==
    /\ collection = EMPLOYEE_COLLECTION
    /\ LET r == add_employee(docs, data, now, salt, fault)
       IN /\ WithinBounds(r, EMP, SEED_EMPLOYEE_NUMBER)
          /\ Handled("add_employee", <<>>, data, fault, r)

UpdateEmployee(id, data, now, salt, fault) ==
    /\ collection = EMPLOYEE_COLLECTION
    /\ Handled("update_employee", id, data, fault,
               update_employee(docs, id, data, now, salt, fault))

LoginEmployee(data, now, fault) ==
    /\ collection = EMPLOYEE_COLLECTION
    /\ LET found == IF "email" \in DOMAIN data
                    THEN get_documents_by_field(docs, "email", data.email) ELSE {}
       IN \E first \in (IF found = {} THEN {EmptyDict} ELSE found) :
              Handled("login_employee", <<>>, data, fault,
                      login_employee(docs, data, now, first, fault))

GetEmployee(id, fault) ==
    /\ collection = EMPLOYEE_COLLECTION
    /\ Handled("get_employee", id, EmptyDict, fault, get_employee(docs, id, fault))

GetAllEmployees(fault) ==
    /\ collection = EMPLOYEE_COLLECTION
    /\ Handled("get_all_employees", <<>>, EmptyDict, fault, get_all_employees(docs, fault))

VerifyEmployeeExists(id, fault) ==
    /\ collection = EMPLOYEE_COLLECTION
    /\ id # <<>>
    /\ Handled("verify_employee_exists", id, EmptyDict, fault,
               verify_employee_exists(docs, id, fault))

GetEmployeesByDesignation(designation, fault) ==
    /\ collection = EMPLOYEE_COLLECTION
    /\ Handled("get_employees_by_designation", <<>>, [designation |-> designation], fault,
               get_employees_by_designation(docs, designation, fault))

DeleteEmployee(id, fault) ==
    /\ collection = EMPLOYEE_COLLECTION
    /\ Handled("delete_employee", id, EmptyDict, fault, delete_employee(docs, id, fault))

\* the controller returns the handler's response to the client, and the
\* service is ready for the next request
Respond ==
    /\ call # NoCall
    /\ call' = NoCall
    /\ response' = NoResponse
    /\ before' = docs
    /\ UNCHANGED <<collection, docs, issued, procs>>

\* The registries: registration, lookup, update of the identity fields and
\* deletion, in both services.
Next ==
    \/ \E data \in CompanyRegistrations, now \in Timestamps : AddCompany(data, now, NoFault)
    \/ \E id \in CompanyKeys : GetCompany(id, NoFault)
    \/ GetAllCompanies(NoFault)
    \/ \E id \in CompanyKeys, data \in CompanyUpdates, now \in Timestamps :
           UpdateCompany(id, data, now, NoFault)
    \/ \E id \in CompanyKeys : DeleteCompany(id, NoFault)
    \/ \E id \in CompanyKeys : VerifyCompanyExists(id, NoFault)
    \/ \E data \in EmployeeRegistrations, now \in Timestamps :
           AddEmployee(data, now, 1, NoFault)
    \/ \E id \in EmployeeKeys : GetEmployee(id, NoFault)
    \/ \E id \in EmployeeKeys, data \in EmployeeUpdates, now \in Timestamps :
           UpdateEmployee(id, data, now, 1, NoFault)
    \/ \E id \in EmployeeKeys : DeleteEmployee(id, NoFault)
    \/ \E id \in EmployeeKeys : VerifyEmployeeExists(id, NoFault)
    \/ Respond

Spec == Init /\ [][Next]_vars

\* Registration and deletion alone, in both services.
NextLifecycle ==
    \/ \E data \in CompanyRegistrations, now \in Timestamps : AddCompany(data, now, NoFault)
    \/ \E id \in CompanyKeys : DeleteCompany(id, NoFault)
    \/ \E data \in EmployeeRegistrations, now \in Timestamps, salt \in Salts :
           AddEmployee(data, now, salt, NoFault)
    \/ \E id \in EmployeeKeys : DeleteEmployee(id, NoFault)
    \/ Respond

SpecLifecycle == Init /\ [][NextLifecycle]_vars

\* The employee service with its credentials: registration, password updates
\* and resets, login and the read operations.
InitCredentials == Init /\ collection = EMPLOYEE_COLLECTION

NextCredentials ==
    \/ \E data \in EmployeeRegistrations, now \in Timestamps, salt \in Salts :
           AddEmployee(data, now, salt, NoFault)
    \/ \E id \in EmployeeKeys, data \in CredentialUpdates, now \in Timestamps, salt \in Salts :
           UpdateEmployee(id, data, now, salt, NoFault)
    \/ \E data \in Logins, now \in Timestamps : LoginEmployee(data, now, NoFault)
    \/ \E id \in EmployeeKeys : GetEmployee(id, NoFault)
    \/ GetAllEmployees(NoFault)
    \/ \E designation \in Designations : GetEmployeesByDesignation(designation, NoFault)
    \/ \E id \in EmployeeKeys : DeleteEmployee(id, NoFault)
    \/ Respond

SpecCredentials == InitCredentials /\ [][NextCredentials]_vars

\* The employee service with updates of single fields: registration, update
\* of the password and of other fields, login and deletion.
NextUpdates ==
    \/ \E data \in FaultEmployeeRegistrations, now \in Timestamps :
           AddEmployee(data, now, 1, NoFault)
    \/ \E id \in EmployeeKeys, data \in FieldUpdates, now \in Timestamps, salt \in Salts :
           UpdateEmployee(id, data, now, salt, NoFault)
    \/ \E data \in Logins, now \in Timestamps : LoginEmployee(data, now, NoFault)
    \/ \E id \in EmployeeKeys : DeleteEmployee(id, NoFault)
    \/ Respond

SpecUpdates == InitCredentials /\ [][NextUpdates]_vars

\* The employee service with updates of the identity fields and login.
NextIdentityLogin ==
    \/ \E data \in FaultEmployeeRegistrations, now \in Timestamps :
           AddEmployee(data, now, 1, NoFault)
    \/ \E id \in EmployeeKeys, data \in EmployeeUpdates, now \in Timestamps :
           UpdateEmployee(id, data, now, 1, NoFault)
    \/ \E data \in Logins, now \in Timestamps : LoginEmployee(data, now, NoFault)
    \/ Respond

SpecIdentityLogin == InitCredentials /\ [][NextIdentityLogin]_vars

\* Every operation of both services, each store call of a request failing
\* or not.
NextFaults ==
    \/ \E data \in FaultCompanyRegistrations, now \in Timestamps, fault \in AnyFault :
           AddCompany(data, now, fault)
    \/ \E id \in CompanyKeys, fault \in AnyFault : GetCompany(id, fault)
    \/ \E fault \in AnyFault : GetAllCompanies(fault)
    \/ \E id \in CompanyKeys, data \in EmailUpdates, now \in Timestamps, fault \in AnyFault :
           UpdateCompany(id, data, now, fault)
    \/ \E id \in CompanyKeys, fault \in AnyFault : DeleteCompany(id, fault)
    \/ \E query \in Queries, field \in SearchFields, fault \in AnyFault :
           SearchCompanies(query, field, fault)
    \/ \E size \in Sizes, fault \in AnyFault : GetCompaniesBySize(size, fault)
    \/ \E id \in CompanyKeys, fault \in AnyFault : VerifyCompanyExists(id, fault)
    \/ \E data \in FaultEmployeeRegistrations, now \in Timestamps, fault \in AnyFault :
           AddEmployee(data, now, 1, fault)
    \/ \E id \in EmployeeKeys, data \in EmailUpdates, now \in Timestamps, fault \in AnyFault :
           UpdateEmployee(id, data, now, 1, fault)
    \/ \E data \in Logins, now \in Timestamps, fault \in AnyFault :
           LoginEmployee(data, now, fault)
    \/ \E id \in EmployeeKeys, fault \in AnyFault : GetEmployee(id, fault)
    \/ \E fault \in AnyFault : GetAllEmployees(fault)
    \/ \E id \in EmployeeKeys, fault \in AnyFault : VerifyEmployeeExists(id, fault)
    \/ \E designation \in Designations, fault \in AnyFault :
           GetEmployeesByDesignation(designation, fault)
    \/ \E id \in EmployeeKeys, fault \in AnyFault : DeleteEmployee(id, fault)
    \/ Respond

SpecFaults == Init /\ [][NextFaults]_vars

\* Two registrations in service at once.  A registration gives way to the
\* other at its store calls: the existence query, the scan of the id
\* generator and the write are three steps.
Check(p, data) ==
    /\ procs[p].pc = "idle"
    /\ LET rejected == IF collection = COMPANY_COLLECTION
                       THEN company_rejection(docs, data, NoFault)
                       ELSE employee_rejection(docs, data, NoFault)
       IN procs' = [procs EXCEPT ![p] =
              [pc |-> IF rejected # NoResponse THEN "done" ELSE "generate",
               data |-> data, id |-> <<>>, resp |-> rejected, last |-> FALSE]]
    /\ UNCHANGED <<collection, docs, call, response, issued, before>>

Generate(p) ==
    /\ procs[p].pc = "generate"
    /\ LET id == IF collection = COMPANY_COLLECTION
                 THEN get_next_company_id(docs, NoFault)
                 ELSE get_next_employee_id(docs, NoFault)
           seed == IF collection = COMPANY_COLLECTION THEN SEED_COMPANY_NUMBER
                                                      ELSE SEED_EMPLOYEE_NUMBER
           prefix == IF collection = COMPANY_COLLECTION THEN PEPRE ELSE EMP
       IN /\ int_value(slice_from(id, Len(prefix))) <= seed + MaxNew
          /\ procs' = [procs EXCEPT ![p].pc = "write", ![p].id = id]
    /\ UNCHANGED <<collection, docs, call, response, issued, before>>

Write(p, now, salt) ==
    /\ procs[p].pc = "write"
    /\ LET r == IF collection = COMPANY_COLLECTION
                THEN company_written(docs, procs[p].id, procs[p].data, now)
                ELSE employee_written(docs, procs[p].id, procs[p].data, now, salt)
       IN /\ docs' = r.store
          /\ procs' = [q \in Procs |->
                 IF q = p THEN [procs[p] EXCEPT !.pc = "done", !.resp = r.resp,
                                                !.last = r.resp.status = 201]
                 ELSE [procs[q] EXCEPT !.last = procs[q].last /\ r.resp.status # 201]]
          /\ issued' = IF r.resp.status = 201 THEN issued \cup {procs[p].id} ELSE issued
    /\ UNCHANGED <<collection, call, response, before>>

Return(p) ==
    /\ procs[p].pc = "done"
    /\ procs' = [procs EXCEPT ![p] = Idle]
    /\ UNCHANGED <<collection, docs, call, response, issued, before>>

NextRace ==
    \/ \E p \in Procs, data \in RaceRegistrations : Check(p, data)
    \/ \E p \in Procs : Generate(p)
    \/ \E p \in Procs, now \in Timestamps : Write(p, now, 1)
    \/ \E p \in Procs : Return(p)

SpecRace == Init /\ [][NextRace]_vars

----------------------------------------------------------------------------
(* Vocabulary of the properties. *)

Registering == call.op \in {"add_company", "add_employee"}
Updating == call.op \in {"update_company", "update_employee"}

RequiredFields ==
    IF collection = COMPANY_COLLECTION THEN COMPANY_REQUIRED ELSE EMPLOYEE_REQUIRED

\* the required fields a request leaves out: absent, None or ""
MissingIn(data) ==
    {RequiredFields[i] : i \in {j \in 1..Len(RequiredFields) :
        \/ RequiredFields[j] \notin DOMAIN data
        \/ data[RequiredFields[j]] \in {None, ""}}}

\* the field names a "Missing required fields" message lists
NamedIn(message) ==
    IF message # <<>> /\ message[1] = "Missing required fields: "
    THEN {message[i] : i \in {j \in 2..Len(message) : j % 2 = 0}}
    ELSE {}

IdPrefix == IF collection = COMPANY_COLLECTION THEN PEPRE ELSE EMP
SeedId == IF collection = COMPANY_COLLECTION THEN SEED_COMPANY_ID ELSE SEED_EMPLOYEE_ID
NextId(store) ==
    IF collection = COMPANY_COLLECTION THEN get_next_company_id(store, NoFault)
                                       ELSE get_next_employee_id(store, NoFault)

\* an id value that reads as the prefix followed by an integer
Parsable(id) ==
    /\ id.type = "str"
    /\ startswith(id.val, IdPrefix)
    /\ int_parses(slice_from(id.val, Len(IdPrefix)))
SuffixOf(text) == int_value(slice_from(text, Len(IdPrefix)))

\* a string id with the prefix and a suffix that is no integer / without the prefix
Malformed(id) == id.type = "str" /\ startswith(id.val, IdPrefix) /\ ~Parsable(id)
Foreign(id) == id.type = "str" /\ ~startswith(id.val, IdPrefix)

ParsableNumbers(store) ==
    {SuffixOf(store[k].id.val) : k \in {x \in DOMAIN store : Parsable(store[x].id)}}

\* the documents a response carries
PayloadRecords(data) ==
    IF data = Null THEN {}
    ELSE IF "items" \in DOMAIN data THEN data.items
    ELSE {data}

ResetRequested ==
    /\ call.op = "update_employee"
    /\ "update_password" \in DOMAIN call.data
    /\ call.data.update_password = "True"

----------------------------------------------------------------------------
(* Properties. *)

\* C1: the data returned by add_employee, update_employee, get_employee,
\* get_all_employees, get_employees_by_designation and login_employee never
\* contains a stored password hash.
C1_PayloadCarriesNoHash ==
    call.op \in {"add_employee", "update_employee", "get_employee", "get_all_employees",
                 "get_employees_by_designation", "login_employee"}
    => \A rec \in PayloadRecords(response.data) :
           "password" \in DOMAIN rec => ~is_bcrypt_format(rec.password)

\* C2: with requests served one at a time, no two stored entities of a
\* collection have the same email.
C2_EmailsUnique ==
    \A k1 \in DOMAIN docs : \A k2 \in DOMAIN docs :
        k1 # k2 => docs[k1].email # docs[k2].email

\* C3: a registration never assigns an id that an earlier registration
\* assigned, also after the entity that held it was deleted.
C3_IdNeverReassigned ==
    [][(call'.op \in {"add_company", "add_employee"} /\ response'.status = 201)
           => response'.data.id.val \notin issued]_vars

\* C4: when the collection holds at least one id that reads as prefix plus
\* integer, the generator returns the prefix followed by the greatest such
\* integer plus one.
C4_NextIdIsMaxPlusOne ==
    ParsableNumbers(docs) # {}
    => /\ Parsable(JStr(NextId(docs)))
       /\ SuffixOf(NextId(docs)) = max(ParsableNumbers(docs)) + 1

\* C5: when the collection is empty or holds only malformed or
\* foreign-prefixed ids, the generator returns the seed id; malformed and
\* foreign-prefixed ids are skipped, the result being the one for the
\* collection without them.
C5_SeedWithoutParsableId ==
    /\ ParsableNumbers(docs) = {} => NextId(docs) = SeedId
    /\ LET kept == {k \in DOMAIN docs : ~Malformed(docs[k].id) /\ ~Foreign(docs[k].id)}
       IN NextId(docs) = NextId([k \in kept |-> docs[k]])

\* C5, reached: a registration got the seed id while the only other
\* documents carried malformed or foreign-prefixed ids.
C5_Witness ==
    /\ Registering /\ response.status = 201
    /\ response.data.id = JStr(SeedId)
    /\ \E k \in DOMAIN docs : k # SeedId
    /\ \A k \in DOMAIN docs :
           k # SeedId => (Malformed(docs[k].id) \/ Foreign(docs[k].id))

\* C6: while an entity with email e is stored, a registration with all
\* required fields and email e returns 400 with no data and the "already
\* exists" message, and leaves the collection as it was.
C6_DuplicateEmailRejected ==
    [][(/\ call'.op \in {"add_company", "add_employee"}
        /\ call'.data # EmptyDict
        /\ MissingIn(call'.data) = {}
        /\ \E k \in DOMAIN docs : docs[k].email = call'.data.email)
           => /\ response'.status = 400
              /\ response'.data = Null
              /\ response'.message \in {<<"Company with this email already exists">>,
                                        <<"Employee with this email already exists">>}
              /\ docs' = docs]_vars

\* C6, reached: a registration was rejected because its email is stored.
C6_Witness ==
    /\ Registering /\ response.status = 400
    /\ MissingIn(call.data) = {} /\ call.data # EmptyDict
    /\ \E k \in DOMAIN docs : docs[k].email = call.data.email

\* C7 as stated: a registration with at least one required field absent,
\* None or "" returns 400 with a message naming exactly the missing required
\* fields, and stores nothing.
C7_MissingFieldsNamed ==
    [][(call'.op \in {"add_company", "add_employee"} /\ MissingIn(call'.data) # {})
           => /\ response'.status = 400
              /\ NamedIn(response'.message) = MissingIn(call'.data)
              /\ docs' = docs]_vars

\* C7, amended: a registration with a non-empty field map that leaves out at
\* least one required field returns 400 with a message naming exactly the
\* missing required fields; one with an empty field map returns 400 "No data
\* provided"; neither stores anything.
C7_MissingFieldsNamedUnlessEmpty ==
    [][(call'.op \in {"add_company", "add_employee"} /\ MissingIn(call'.data) # {})
           => /\ response'.status = 400
              /\ response'.data = Null
              /\ IF call'.data = EmptyDict
                 THEN response'.message = <<"No data provided">>
                 ELSE NamedIn(response'.message) = MissingIn(call'.data)
              /\ docs' = docs]_vars

\* C7, reached: a registration that left out two required fields was rejected
\* with both named.
C7_Witness ==
    /\ Registering /\ response.status = 400
    /\ call.data # EmptyDict
    /\ Cardinality(MissingIn(call.data)) >= 2
    /\ NamedIn(response.message) = MissingIn(call.data)

\* C8: a successful update_employee with update_password = True returns data
\* whose password field is the fixed plaintext password "admin".
C8_ResetReturnsPlaintext ==
    (ResetRequested /\ response.status = 200) => response.data.password = ADMIN_PASSWORD

\* C9: after a successful update_employee with update_password = True the
\* stored password is a hash of "admin", whatever password was supplied, and
\* the stored record has no update_password field.
C9_ResetStoresAdminHash ==
    (ResetRequested /\ response.status = 200)
    => /\ is_bcrypt_format(docs[call.id].password)
       /\ checkpw(ADMIN_PASSWORD, docs[call.id].password)
       /\ "update_password" \notin DOMAIN docs[call.id]

\* C10: the id field of every stored record equals the id assigned at
\* registration, which is the key it is stored under.
C10_IdImmutable ==
    \A k \in DOMAIN docs : docs[k].id = JStr(k)

\* the stored employees a login request names with a password that verifies
VerifiedBy(store, data) ==
    IF {"email", "password"} \subseteq DOMAIN data /\ data.password # NonePassword
    THEN {e \in get_documents_by_field(store, "email", data.email) :
             /\ "password" \in DOMAIN e
             /\ is_bcrypt_format(e.password)
             /\ checkpw(data.password, e.password)}
    ELSE {}

\* C11: when the lookup and the password verification of login_employee
\* succeed but the write of last_login fails, the login still returns status
\* 200 with the entity.
C11_LoginSurvivesWriteFailure ==
    (/\ call.op = "login_employee"
     /\ call.fault = "update_document"
     /\ VerifiedBy(before, call.data) # {})
    => /\ response.status = 200
       /\ response.data \in VerifiedBy(before, call.data)

EmailConflictMessages ==
    {<<"Email already in use by another company">>,
     <<"Email already in use by another employee">>}

\* another entity than the one under key k holds the email
HeldByAnother(store, k, email) ==
    \E other \in (DOMAIN store) \ {k} : store[other].email = email

\* C12: an update that changes the email of an entity to a value another
\* entity holds returns status 400 with data null and leaves the store
\* unchanged; an update whose email is the entity's own, or is held by no
\* other entity, is not rejected for conflict.
C12_EmailConflictOnUpdate ==
    (Updating /\ call.id \in DOMAIN before /\ "email" \in DOMAIN call.data)
    => IF /\ before[call.id].email # call.data.email
          /\ HeldByAnother(before, call.id, call.data.email)
       THEN response.status = 400 /\ response.data = Null /\ docs = before
       ELSE response.message \notin EmailConflictMessages

\* a registration in service that has returned 201
Registered(p) == procs[p].pc = "done" /\ procs[p].resp.status = 201

\* C13: of two register calls with the same email in service at once, with
\* the existence query and the write as separate steps, both can pass the
\* query and return 201, leaving two stored entities with that email: a
\* registration that passed its existence query (it went on to generate an
\* id) returns 201 whatever was written since, and the record of the latest
\* writer is stored under its id.
C13_CheckNotRepeatedAtWrite ==
    \A p \in Procs :
        /\ (procs[p].pc = "done" /\ procs[p].id # <<>>) => procs[p].resp.status = 201
        /\ (Registered(p) /\ procs[p].last)
           => /\ has_document(docs, procs[p].id)
              /\ docs[procs[p].id].email = procs[p].data.email

\* C13, reached: both calls returned 201 for the same email under different
\* ids, and the store holds two entities with that email.
C13_Witness ==
    /\ Registered(1) /\ Registered(2)
    /\ procs[1].data.email = procs[2].data.email
    /\ procs[1].id # procs[2].id
    /\ Cardinality({k \in DOMAIN docs : docs[k].email = procs[1].data.email}) = 2

\* C14: of two register calls with different emails in service at once, both
\* id generators can scan the same collection contents and return the same
\* id; then both calls return 201 with that id and the store holds a single
\* record under it, that of the later write.
C14_SameIdLaterWriteWins ==
    \A p, q \in Procs :
        (/\ p # q /\ Registered(p) /\ Registered(q)
         /\ procs[p].id = procs[q].id
         /\ procs[p].data.email # procs[q].data.email
         /\ procs[q].last)
        => /\ procs[p].resp.data.id = procs[q].resp.data.id
           /\ ~procs[p].last
           /\ {d \in get_all_documents(docs) : d.id = procs[q].resp.data.id}
                  = {docs[procs[q].id]}
           /\ docs[procs[q].id].email = procs[q].data.email

\* C14, reached: both calls returned 201 with the same id for different
\* emails, and the store holds one record.
C14_Witness ==
    /\ Registered(1) /\ Registered(2)
    /\ procs[1].resp.data.id = procs[2].resp.data.id
    /\ procs[1].data.email # procs[2].data.email
    /\ Cardinality(DOMAIN docs) = 1
    /\ procs[1].last # procs[2].last

\* a registration request that passes validation and the existence query
Admissible(store, data) ==
    data # EmptyDict /\ MissingIn(data) = {} /\ ~email_taken(store, data.email)

\* C15: when the read of the collection fails inside the id generator, the
\* generator returns the seed id and the register call does not fail: it
\* writes the record under the seed id, also when an entity with the seed id
\* is already stored.
C15_SeedOnScanFailure ==
    (Registering /\ call.fault = "get_all_documents" /\ Admissible(before, call.data))
    => /\ response.status = 201
       /\ response.data.id = JStr(SeedId)
       /\ DOMAIN docs = (DOMAIN before) \cup {SeedId}
       /\ docs[SeedId].id = JStr(SeedId)
       /\ docs[SeedId].email = call.data.email
       /\ \A k \in (DOMAIN before) \ {SeedId} : docs[k] = before[k]

\* C15, reached: the scan failed while an entity with the seed id and
\* another email was stored, and the registration replaced it.
C15_Witness ==
    /\ Registering /\ call.fault = "get_all_documents"
    /\ response.status = 201
    /\ has_document(before, SeedId)
    /\ before[SeedId].email # call.data.email
    /\ docs[SeedId].email = call.data.email

STATUSES == {200, 201, 400, 401, 404, 500}
ERROR_STATUSES == {400, 401, 404, 500}

\* C16: every operation (register, get, list, update, delete, search,
\* filter, exists, login) returns a (status, message, data) result for every
\* input and every store fault, and the data of a result with an error
\* status (400, 401, 404, 500) is null.
C16_AlwaysAnEnvelope ==
    call # NoCall
    => /\ DOMAIN response = {"status", "message", "data"}
       /\ response.status \in STATUSES
       /\ response.message # <<>>
       /\ response.status \in ERROR_STATUSES => response.data = Null

\* C16, reached: the store failed after an update had written, and the
\* handler answered 500 with no data.
C16_Witness ==
    /\ call.fault = "get_document again"
    /\ response.status = 500 /\ response.data = Null
    /\ docs # before

\* the stored value is a bcrypt digest of the password, under any salt; of
\* None there is no digest
IsHashOf(stored, plain) ==
    plain # NonePassword /\ stored.scheme = "$2b$" /\ stored.key = plain.key

\* C17: login_employee returns status 401 with data null when no entity has
\* the given email and when the password does not verify against the stored
\* hash, returns 400 when email or password is missing from the request,
\* and writes nothing to the store in any of these cases.
C17_LoginRejections ==
    call.op = "login_employee"
    => LET data == call.data
           keyed == {"email", "password"} \subseteq DOMAIN data
           matches == IF "email" \in DOMAIN data
                      THEN get_documents_by_field(before, "email", data.email) ELSE {}
       IN /\ ~keyed => response.status = 400 /\ docs = before
          /\ (keyed /\ matches = {})
             => response.status = 401 /\ response.data = Null /\ docs = before
          /\ (/\ keyed /\ matches # {}
              /\ \A e \in matches : ~IsHashOf(e.password, data.password))
             => response.status = 401 /\ response.data = Null /\ docs = before

\* C18: the last_login field of a stored employee is set only by a
\* successful login: it is null after registration, and no register, update
\* or delete call changes its value.
C18_LastLoginSetOnlyByLogin ==
    /\ (call.op = "add_employee" /\ response.status = 201)
       => docs[response.data.id.val].last_login = None
    /\ call.op \in {"add_employee", "update_employee", "delete_employee"}
       => \A k \in (DOMAIN before) \cap (DOMAIN docs) :
              docs[k].last_login = before[k].last_login

Deleting == call.op \in {"delete_company", "delete_employee"}
Fetching == call.op \in {"get_company", "get_employee"}

\* what the next request would be answered, were it a fetch, an existence
\* check or a delete of the id
FetchOf(store, id) ==
    IF collection = COMPANY_COLLECTION THEN get_company(store, id, NoFault)
                                       ELSE get_employee(store, id, NoFault)
ExistsOf(store, id) ==
    IF collection = COMPANY_COLLECTION THEN verify_company_exists(store, id, NoFault)
                                       ELSE verify_employee_exists(store, id, NoFault)
DeleteOf(store, id) ==
    IF collection = COMPANY_COLLECTION THEN delete_company(store, id, NoFault)
                                       ELSE delete_employee(store, id, NoFault)

\* C19: after a delete of id x that returned 200, with no operation in
\* between, a fetch of x returns 404, exists(x) reports false and a second
\* delete of x returns 404.
C19_DeletedIsGone ==
    (Deleting /\ response.status = 200)
    => /\ FetchOf(docs, call.id).resp.status = 404
       /\ ExistsOf(docs, call.id).resp.data = [exists |-> FALSE]
       /\ DeleteOf(docs, call.id).resp.status = 404
       /\ DeleteOf(docs, call.id).store = docs

\* C19, reached: a fetch of an id that had been registered and deleted was
\* answered 404.
C19_Witness ==
    /\ Fetching /\ response.status = 404
    /\ call.id \in issued
    /\ ~has_document(before, call.id)

\* C20: an update_employee call without the reset flag that supplies an
\* empty or None password is not an error and leaves the stored hash
\* unchanged, the other supplied fields still being applied; a non-empty
\* supplied password replaces the stored hash with a hash of that password,
\* never with the plaintext.
C20_PasswordOnUpdate ==
    (/\ call.op = "update_employee" /\ ~ResetRequested
     /\ "password" \in DOMAIN call.data
     /\ has_document(before, call.id))
    => /\ response.status = 200
       /\ \A f \in (DOMAIN call.data) \ {"password"} : docs[call.id][f] = call.data[f]
       /\ IF call.data.password \in {Plain(""), NonePassword}
          THEN docs[call.id].password = before[call.id].password
          ELSE /\ IsHashOf(docs[call.id].password, call.data.password)
               /\ docs[call.id].password # call.data.password

\* C20, reached: an update with an empty password beside another field left
\* the hash as it was and applied the other field.
C20_Witness ==
    /\ call.op = "update_employee" /\ ~ResetRequested
    /\ response.status = 200
    /\ "password" \in DOMAIN call.data /\ call.data.password = Plain("")
    /\ "designation" \in DOMAIN call.data
    /\ before[call.id].designation # call.data.designation
    /\ docs[call.id].designation = call.data.designation
    /\ docs[call.id].password = before[call.id].password

\* C21: a successful login changes only the last_login field of the matched
\* entity: every other field of that entity and every other stored entity
\* is left unchanged.
C21_LoginTouchesOnlyLastLogin ==
    (call.op = "login_employee" /\ response.status = 200)
    => \E k \in DOMAIN before :
           /\ before[k] = response.data
           /\ DOMAIN docs = DOMAIN before
           /\ without(docs[k], "last_login") = without(before[k], "last_login")
           /\ \A j \in (DOMAIN before) \ {k} : docs[j] = before[j]

Writing ==
    call.op \in {"add_company", "add_employee", "update_company", "update_employee",
                 "delete_company", "delete_employee", "login_employee"}

\* C22: a register, update, delete or login call that returns status 400,
\* 401 or 404 leaves the whole store exactly as it was before the call.
C22_RejectionWritesNothing ==
    (Writing /\ response.status \in {400, 401, 404}) => docs = before

\* C22, reached: with employees stored, a login for the email of one of them
\* was answered 401 and the store is as it was.
C22_Witness ==
    /\ call.op = "login_employee" /\ response.status = 401
    /\ "email" \in DOMAIN call.data
    /\ get_documents_by_field(before, "email", call.data.email) # {}
    /\ docs = before

\* C23: with requests served one at a time and no store fault, a successful
\* registration (status 201) adds exactly one new record and neither
\* overwrites nor alters a record that was already stored, in every state
\* reachable through register, update and delete.
C23_RegistrationAddsOneRecord ==
    (Registering /\ response.status = 201)
    => /\ ~has_document(before, response.data.id.val)
       /\ DOMAIN docs = (DOMAIN before) \cup {response.data.id.val}
       /\ \A k \in DOMAIN before : docs[k] = before[k]

\* C24: in every reachable state no stored employee record contains an
\* update_password field, whatever value (True, False or a non-boolean) was
\* passed for that flag to update_employee.
C24_FlagNeverStored ==
    collection = EMPLOYEE_COLLECTION
    => \A k \in DOMAIN docs : "update_password" \notin DOMAIN docs[k]

====
